---- MODULE Spec2Model ----
(***************************************************************************)
(* Model of the segment-selection subsystem of MClip                        *)
(* (backend/src/ai.py): the Ollama preflight, the retrying generation call, *)
(* JSON recovery, first-pass validation, the fallback expander and the      *)
(* final sort/trim of get_most_relevant_parts_by_transcript.                *)
(*                                                                          *)
(* Representation.                                                          *)
(*  - A Python string that is parsed (a timestamp) is a sequence of         *)
(*    one-character strings, e.g. <<"0","0",":","3","0">>.                  *)
(*  - A text is the sequence of its whitespace-separated words, so that     *)
(*    text.split() is the sequence itself and joining with " " is \o.       *)
(*  - A relevance score is an integer number of tenths (0.8 is 8).          *)
(*  - A JSON value that may have the wrong type is a record with a "kind"   *)
(*    field ("str", "num", "null", "absent", ...).                          *)
(*  - A function that may raise returns a record [ok, ...]; ok = FALSE is   *)
(*    the raised exception.                                                 *)
(*  - A local variable of the code that is read several times is a         *)
(*    parameter of the operator that models the statements after its        *)
(*    assignment (ParseParts after parts = ts.split(':'), and so on).       *)
(***************************************************************************)
EXTENDS Integers, Sequences, FiniteSets, TLC

\* ------------------------------------------------------------------------
\* Program constants (ai.py)
\* ------------------------------------------------------------------------
MIN_SEGMENT_DURATION == 30
MAX_SEGMENT_DURATION == 60
MIN_SEGMENTS == 3
MAX_SEGMENTS == 5
max_retries == 3
DefaultScore == 8

\* ------------------------------------------------------------------------
\* Bounds of the model
\* ------------------------------------------------------------------------
\* longest candidate list drawn from the whole candidate pool
MaxCands == 2
\* longest candidate list drawn from the well-formed candidates only
MaxValidCands == 6

\* ------------------------------------------------------------------------
\* Strings as character sequences
\* ------------------------------------------------------------------------
DigitChars == <<"0", "1", "2", "3", "4", "5", "6", "7", "8", "9">>

IsDigit(c) == \E i \in 1..10 : DigitChars[i] = c

DigitVal(c) == (CHOOSE i \in 1..10 : DigitChars[i] = c) - 1

\* str.strip(): drop leading and trailing blanks
RECURSIVE LStrip(_)
LStrip(s) == IF s # <<>> /\ Head(s) = " " THEN LStrip(Tail(s)) ELSE s

RECURSIVE RStrip(_)
RStrip(s) ==
  IF s # <<>> /\ s[Len(s)] = " " THEN RStrip(SubSeq(s, 1, Len(s) - 1)) ELSE s

Strip(s) == RStrip(LStrip(s))

\* str.split(sep): the pieces between the occurrences of sep
RECURSIVE SplitAcc(_, _, _)
SplitAcc(s, sep, cur) ==
  IF s = <<>> THEN <<cur>>
  ELSE IF Head(s) = sep THEN <<cur>> \o SplitAcc(Tail(s), sep, <<>>)
  ELSE SplitAcc(Tail(s), sep, Append(cur, Head(s)))

Split(s, sep) == SplitAcc(s, sep, <<>>)

Contains(s, c) == \E i \in 1..Len(s) : s[i] = c

RECURSIVE DigitsVal(_)
DigitsVal(s) ==
  IF s = <<>> THEN 0 ELSE 10 * DigitsVal(SubSeq(s, 1, Len(s) - 1)) + DigitVal(s[Len(s)])

AllDigits(s) == s # <<>> /\ \A i \in 1..Len(s) : IsDigit(s[i])

\* int(str): blanks stripped, an optional sign, then decimal digits; anything
\* else raises ValueError (ok = FALSE)
PyIntDigits(body, negative) ==
  IF AllDigits(body)
    THEN [ok |-> TRUE, val |-> IF negative THEN 0 - DigitsVal(body) ELSE DigitsVal(body)]
    ELSE [ok |-> FALSE, val |-> 0]

PyIntStripped(t) ==
  IF t # <<>> /\ Head(t) \in {"-", "+"}
    THEN PyIntDigits(Tail(t), Head(t) = "-")
    ELSE PyIntDigits(t, FALSE)

PyInt(s) == PyIntStripped(Strip(s))

RECURSIVE NatDigits(_)
NatDigits(n) ==
  IF n < 10 THEN <<DigitChars[n + 1]>>
  ELSE Append(NatDigits(n \div 10), DigitChars[(n % 10) + 1])

\* the format spec {n:02d} for n >= 0: decimal, zero-padded to two digits
Fmt02d(n) == IF n < 10 THEN <<"0">> \o NatDigits(n) ELSE NatDigits(n)

\* ------------------------------------------------------------------------
\* Timestamps
\* ------------------------------------------------------------------------
ParseError == [ok |-> FALSE, val |-> 0]

\* ai.parse_timestamp_to_seconds: ts is a JSON value [kind, chars]
\* lines 544-552: the three components once converted
CombineHMS(hours, minutes, seconds) ==
  IF ~(hours.ok /\ minutes.ok /\ seconds.ok) THEN ParseError
  ELSE IF seconds.val < 0 \/ minutes.val < 0 \/ hours.val < 0 THEN ParseError
  ELSE [ok |-> TRUE, val |-> hours.val * 3600 + minutes.val * 60 + seconds.val]

\* line 547: int(seconds.split('.')[0]) if '.' in seconds else int(seconds)
SecondsInt(seconds) ==
  IF Contains(seconds, ".") THEN PyInt(Split(seconds, ".")[1]) ELSE PyInt(seconds)

\* lines 537-552: after parts = ts.split(':')
ParseParts(parts) ==
  IF Len(parts) = 2
    THEN CombineHMS([ok |-> TRUE, val |-> 0], PyInt(parts[1]), SecondsInt(parts[2]))
  ELSE IF Len(parts) = 3
    THEN CombineHMS(PyInt(parts[1]), PyInt(parts[2]), SecondsInt(parts[3]))
  ELSE ParseError

parse_timestamp_to_seconds(ts) ==
  IF ts.kind # "str" THEN ParseError ELSE ParseParts(Split(Strip(ts.chars), ":"))

\* the f-string of the expander: f"{s//60:02d}:{s%60:02d}"
FormatMMSS(s) == Fmt02d(s \div 60) \o <<":">> \o Fmt02d(s % 60)

\* the regex group (\d{2}:\d{2}) of _parse_transcript_lines
MatchesMMSS(cs) ==
  /\ Len(cs) = 5
  /\ IsDigit(cs[1]) /\ IsDigit(cs[2]) /\ cs[3] = ":" /\ IsDigit(cs[4]) /\ IsDigit(cs[5])

Str(cs) == [kind |-> "str", chars |-> cs]

\* ------------------------------------------------------------------------
\* Transcript lines "[MM:SS - MM:SS] text": a line is its two stamps and its
\* words; a transcript is the sequence of its lines
\* ------------------------------------------------------------------------
Line(st, et, ws) == [st |-> st, et |-> et, text |-> ws]

\* ai._parse_transcript_lines
\* lines 559-576: the entries (none or one) that one line contributes
EntryOf(line, start_s, end_s) ==
  IF ~(MatchesMMSS(line.st) /\ MatchesMMSS(line.et)) THEN <<>>
  ELSE IF ~(start_s.ok /\ end_s.ok) THEN <<>>
  ELSE IF end_s.val <= start_s.val THEN <<>>
  ELSE <<[start_time |-> line.st, end_time |-> line.et,
          start_s |-> start_s.val, end_s |-> end_s.val, text |-> line.text]>>

RECURSIVE _parse_transcript_lines(_)
_parse_transcript_lines(transcript) ==
  IF transcript = <<>> THEN <<>>
  ELSE EntryOf(Head(transcript),
               parse_timestamp_to_seconds(Str(Head(transcript).st)),
               parse_timestamp_to_seconds(Str(Head(transcript).et)))
       \o _parse_transcript_lines(Tail(transcript))

\* ------------------------------------------------------------------------
\* First-pass validation
\* ------------------------------------------------------------------------
\* float(seg.get("relevance_score", 0.8)): "ok", "ValueError" or "TypeError"
ScoreOf(sc) ==
  CASE sc.kind = "num" -> [res |-> "ok", val |-> sc.val]
    [] sc.kind = "absent" -> [res |-> "ok", val |-> DefaultScore]
    [] sc.kind = "str" -> [res |-> "ValueError", val |-> 0]
    [] OTHER -> [res |-> "TypeError", val |-> 0]

DurationInRangeNoMax(duration) == ~(duration < MIN_SEGMENT_DURATION)

\* line 674: if duration < MIN_SEGMENT_DURATION or duration > MAX_SEGMENT_DURATION: skip
DurationInRange(duration) ==
  ~(duration < MIN_SEGMENT_DURATION \/ duration > MAX_SEGMENT_DURATION)

ScoreInRangeNoUpper(score) == 0 <= score

\* line 678: if not (0.0 <= relevance_score <= 1.0): skip   (tenths)
ScoreInRange(score) == 0 <= score /\ score <= 10

TranscriptSegment(st, et, txt, sc, why) ==
  [start_time |-> st, end_time |-> et, text |-> txt,
   relevance_score |-> sc, reasoning |-> why]

\* the body of the loop of validate_segments for one entry:
\* "accept" (with the segment), "skip", or "raise" (an exception that the
\* except (ValueError, KeyError) clause does not catch)
NoSegment == TranscriptSegment(<<>>, <<>>, <<>>, 0, "")

Skipped == [res |-> "skip", seg |-> NoSegment]

Raised == [res |-> "raise", seg |-> NoSegment]

\* lines 665-689, with the score and the two parsed times at hand
ValidateFields(seg_data, score, start_sec, end_sec) ==
  IF score.res = "TypeError" THEN Raised
  ELSE IF score.res = "ValueError" THEN Skipped
  ELSE IF seg_data.text.kind = "null" THEN Skipped
  ELSE IF seg_data.text.kind # "str" THEN Raised
  ELSE IF Len(seg_data.text.words) < 3 THEN Skipped
  ELSE IF ~(start_sec.ok /\ end_sec.ok) THEN Skipped
  ELSE IF ~DurationInRange(end_sec.val - start_sec.val) THEN Skipped
  ELSE IF ~ScoreInRange(score.val) THEN Skipped
  ELSE [res |-> "accept",
        seg |-> TranscriptSegment(seg_data.start_time.chars, seg_data.end_time.chars,
                                  seg_data.text.words, score.val, seg_data.reasoning)]

ValidateOne(seg_data) ==
  IF ~seg_data.isdict THEN Skipped
  ELSE ValidateFields(seg_data, ScoreOf(seg_data.relevance_score),
                      parse_timestamp_to_seconds(seg_data.start_time),
                      parse_timestamp_to_seconds(seg_data.end_time))

\* one iteration of a loop that collects emitted items: an exception in any
\* iteration loses the whole result
Collect(one, rest, emitted) ==
  IF one.res = "raise" \/ ~rest.ok THEN [ok |-> FALSE, segs |-> <<>>]
  ELSE IF one.res = emitted THEN [ok |-> TRUE, segs |-> <<one.seg>> \o rest.segs]
  ELSE rest

\* ai.validate_segments: ok = FALSE when an exception escapes the loop
RECURSIVE validate_segments(_)
validate_segments(segments_data) ==
  IF segments_data = <<>> THEN [ok |-> TRUE, segs |-> <<>>]
  ELSE Collect(ValidateOne(Head(segments_data)),
               validate_segments(Tail(segments_data)), "accept")

\* ------------------------------------------------------------------------
\* Fallback expander
\* ------------------------------------------------------------------------
\* lines 602-606: index of the first entry with start_s >= start_s - 1, 0 if none
FindStartIdx(entries, start_s) ==
  IF \E i \in 1..Len(entries) : entries[i].start_s >= start_s - 1
    THEN CHOOSE i \in 1..Len(entries) :
           /\ entries[i].start_s >= start_s - 1
           /\ \A k \in 1..(i - 1) : ~(entries[k].start_s >= start_s - 1)
    ELSE 0

\* lines 616-622: the while loop; j is the (1-based) index of the next entry;
\* appended records the running duration after each append
RECURSIVE ExpandForward(_, _, _, _, _, _)
ExpandForward(entries, j, new_start_s, new_end_s, combined_texts, appended) ==
  IF (new_end_s - new_start_s) < MIN_SEGMENT_DURATION /\ j <= Len(entries)
    THEN LET texts2 == combined_texts \o entries[j].text
             end2 == entries[j].end_s
         IN IF (end2 - new_start_s) > MAX_SEGMENT_DURATION
              THEN [new_end_s |-> end2, combined_texts |-> texts2,
                    appended |-> Append(appended, end2 - new_start_s)]
              ELSE ExpandForward(entries, j + 1, new_start_s, end2, texts2,
                                 Append(appended, end2 - new_start_s))
    ELSE [new_end_s |-> new_end_s, combined_texts |-> combined_texts,
          appended |-> appended]

\* line 625: the band of durations the expander emits
ExpandedDurationOK(new_duration) ==
  ~(new_duration < MIN_SEGMENT_DURATION \/ new_duration > (MAX_SEGMENT_DURATION + 2))

NoDict == [isdict |-> TRUE, start_time |-> Str(<<>>), end_time |-> Str(<<>>),
           text |-> [kind |-> "str", words |-> <<>>],
           relevance_score |-> [kind |-> "num", val |-> 0], reasoning |-> ""]

NotExpanded == [res |-> "skip", seg |-> NoDict]

\* lines 624-639: after the while loop; base_text + " " raises TypeError when
\* the candidate's text is not a string (outside the try block)
ExpandGrown(seg, score, new_start_s, grown) ==
  IF ~ExpandedDurationOK(grown.new_end_s - new_start_s) THEN NotExpanded
  ELSE IF seg.text.kind # "str" THEN [res |-> "raise", seg |-> NoDict]
  ELSE [res |-> "emit",
        seg |-> [isdict |-> TRUE,
                 start_time |-> Str(FormatMMSS(new_start_s)),
                 end_time |-> Str(FormatMMSS(grown.new_end_s)),
                 text |-> [kind |-> "str",
                           words |-> seg.text.words \o grown.combined_texts],
                 relevance_score |-> [kind |-> "num", val |-> score],
                 reasoning |-> seg.reasoning]]

\* lines 607-622: after the search for start_idx
ExpandAt(entries, seg, score, start_idx) ==
  IF start_idx = 0 THEN NotExpanded
  ELSE ExpandGrown(seg, score, entries[start_idx].start_s,
                   ExpandForward(entries, start_idx + 1, entries[start_idx].start_s,
                                 entries[start_idx].end_s, entries[start_idx].text,
                                 <<>>))

\* lines 590-606: the try block, with the score and the two parsed times
ExpandFields(entries, seg, score, start_s, end_s) ==
  IF score.res # "ok" THEN NotExpanded
  ELSE IF ~(start_s.ok /\ end_s.ok) THEN NotExpanded
  ELSE ExpandAt(entries, seg, score.val, FindStartIdx(entries, start_s.val))

\* the body of the loop of _expand_segments_with_transcript for one candidate:
\* "emit" (with the expanded dict), "skip", or "raise"
ExpandOne(entries, seg) ==
  IF ~seg.isdict THEN NotExpanded
  ELSE IF seg.start_time.kind # "str" \/ seg.end_time.kind # "str" THEN NotExpanded
  ELSE ExpandFields(entries, seg, ScoreOf(seg.relevance_score),
                    parse_timestamp_to_seconds(Str(Strip(seg.start_time.chars))),
                    parse_timestamp_to_seconds(Str(Strip(seg.end_time.chars))))

RECURSIVE ExpandAll(_, _)
ExpandAll(entries, segments_data) ==
  IF segments_data = <<>> THEN [ok |-> TRUE, segs |-> <<>>]
  ELSE Collect(ExpandOne(entries, Head(segments_data)),
               ExpandAll(entries, Tail(segments_data)), "emit")

\* lines 584-587: no parsed line, no expansion
ExpandEntries(entries, segments_data) ==
  IF entries = <<>> THEN [ok |-> TRUE, segs |-> <<>>] ELSE ExpandAll(entries, segments_data)

\* ai._expand_segments_with_transcript
_expand_segments_with_transcript(transcript, segments_data) ==
  ExpandEntries(_parse_transcript_lines(transcript), segments_data)

\* ------------------------------------------------------------------------
\* Sort, trim and merge
\* ------------------------------------------------------------------------
\* where list.sort(key=score, reverse=True) puts s among the already sorted
\* acc: after every element whose score is >= its own (the sort is stable)
InsertDesc(acc, s) ==
  LET k == Cardinality({i \in 1..Len(acc) : acc[i].relevance_score >= s.relevance_score})
  IN SubSeq(acc, 1, k) \o <<s>> \o SubSeq(acc, k + 1, Len(acc))

RECURSIVE SortFrom(_, _)
SortFrom(acc, todo) ==
  IF todo = <<>> THEN acc ELSE SortFrom(InsertDesc(acc, Head(todo)), Tail(todo))

Reverse(q) == [i \in 1..Len(q) |-> q[Len(q) + 1 - i]]

SortByScoreAsc(segs) == Reverse(SortFrom(<<>>, segs))

\* segments.sort(key=lambda s: s.relevance_score, reverse=True)
SortByScoreDesc(segs) == SortFrom(<<>>, segs)

TrimNone(segs) == segs

\* segments[:MAX_SEGMENTS]
Trim(segs) == SubSeq(segs, 1, IF Len(segs) < MAX_SEGMENTS THEN Len(segs) ELSE MAX_SEGMENTS)

Key(s) == <<s.start_time, s.end_time>>

\* lines 882-887: append the revalidated segments whose key is not yet present
RECURSIVE MergeNew(_, _)
MergeNew(existing, revalidated) ==
  IF revalidated = <<>> THEN existing
  ELSE LET s == Head(revalidated)
       IN IF \E i \in 1..Len(existing) : Key(existing[i]) = Key(s)
            THEN MergeNew(existing, Tail(revalidated))
            ELSE MergeNew(Append(existing, s), Tail(revalidated))

NeedsFallbackBelowTwo(n) == n < MIN_SEGMENTS - 1

\* line 870: if len(analysis.most_relevant_segments) < MIN_SEGMENTS
NeedsFallback(n) == n < MIN_SEGMENTS

\* ------------------------------------------------------------------------
\* JSON recovery and the analysis after the LLM has answered
\* ------------------------------------------------------------------------
\* A parsed JSON value: kind "dict", "list" (a truthy value that is not an
\* object) or "empty" (a falsy value such as {}); segs is the value under
\* most_relevant_segments, alt the value under the first alternative key
\* present, summary the kind of the value under summary.
NoList == [kind |-> "absent", items |-> <<>>]

Json(kind, segs, alt, summary) ==
  [kind |-> kind, segs |-> segs, alt |-> alt, summary |-> summary]

NoJson == Json("empty", NoList, NoList, "absent")

ParseFail == [ok |-> FALSE, json |-> NoJson]

Parsed(j) == [ok |-> TRUE, json |-> j]

\* lines 471-472 and 519-520: len(result.get("most_relevant_segments", []))
\* raises TypeError inside the try block when the value has no len()
LenRaises(j) == j.kind = "dict" /\ j.segs.kind = "null"

\* ai.extract_json_from_text on a response text given by what json.loads
\* yields on the whole text (direct), on the first fenced block (fenced) and
\* on the balanced-brace span from the first "{" (brace)
extract_json_from_text(text) ==
  IF text.direct.ok /\ ~LenRaises(text.direct.json) THEN text.direct
  ELSE IF text.fenced.ok THEN text.fenced
  ELSE IF text.brace.ok /\ ~LenRaises(text.brace.json) THEN text.brace
  ELSE ParseFail

\* ai.validate_and_fix_json_data; ok = FALSE is the except branch, which
\* returns an analysis without segments. first_pass is what validate_segments
\* returned, when it returned.
\* lines 709-726: the candidate list that is validated
SegmentsData(json_data) ==
  LET main == json_data.segs
      useAlt == (main.kind # "list" \/ main.items = <<>>) /\ json_data.alt.kind # "absent"
      chosen == IF useAlt THEN json_data.alt ELSE main
  IN IF chosen.kind = "list" THEN chosen.items ELSE <<>>

\* lines 735-765: after validated_segments = validate_segments(segments_data);
\* summary[:200] raises TypeError on a summary that cannot be sliced
FixValidated(json_data, validated) ==
  IF ~validated.ok
    THEN [ok |-> FALSE, first_pass |-> <<>>, segs |-> <<>>]
  ELSE IF json_data.summary = "null"
    THEN [ok |-> FALSE, first_pass |-> validated.segs, segs |-> <<>>]
  ELSE [ok |-> TRUE, first_pass |-> validated.segs, segs |-> validated.segs]

validate_and_fix_json_data(json_data) ==
  IF json_data.kind # "dict"
    THEN [ok |-> FALSE, first_pass |-> <<>>, segs |-> <<>>]
    ELSE FixValidated(json_data, validate_segments(SegmentsData(json_data)))

Result(outcome, json_found, first_pass, expander_attempted, expanded, combined, segments) ==
  [outcome |-> outcome, json_found |-> json_found, first_pass |-> first_pass,
   expander_attempted |-> expander_attempted, expanded |-> expanded,
   combined |-> combined, segments |-> segments]

\* line 875: the candidates handed to the expander
OriginalSegments(json_data) ==
  IF json_data.kind = "dict" /\ json_data.segs.kind = "list"
    THEN json_data.segs.items ELSE <<>>

\* lines 888-890: re-sort and trim the merged list
FallbackMerged(fixed, exp, merged) ==
  Result("ok", TRUE, fixed.first_pass, TRUE, exp.segs, merged,
         Trim(SortByScoreDesc(merged)))

\* lines 879-887, and the except of line 892 that leaves the analysis as it was
FallbackRevalidated(fixed, sorted0, exp, revalidated) ==
  IF ~(exp.ok /\ revalidated.ok)
    THEN Result("ok", TRUE, fixed.first_pass, TRUE, <<>>, fixed.segs, sorted0)
    ELSE FallbackMerged(fixed, exp, MergeNew(sorted0, revalidated.segs))

Fallback(fixed, sorted0, exp) ==
  FallbackRevalidated(fixed, sorted0, exp, validate_segments(exp.segs))

\* lines 870-915: after the first sort and trim
AnalyseSorted(transcript, json_data, fixed, sorted0) ==
  IF ~NeedsFallback(Len(sorted0))
    THEN Result("ok", TRUE, fixed.first_pass, FALSE, <<>>, fixed.segs, sorted0)
    ELSE Fallback(fixed, sorted0,
                  _expand_segments_with_transcript(transcript, OriginalSegments(json_data)))

\* lines 863-868: sort by score and limit
AnalyseFixed(transcript, json_data, fixed) ==
  AnalyseSorted(transcript, json_data, fixed, Trim(SortByScoreDesc(fixed.segs)))

\* lines 832-861: no JSON, or len() of a most_relevant_segments without
\* length, raise into the handler of line 917
AnalyseJson(transcript, extracted) ==
  IF ~extracted.ok \/ extracted.json.kind = "empty"
    THEN Result("error", FALSE, <<>>, FALSE, <<>>, <<>>, <<>>)
  ELSE IF LenRaises(extracted.json)
    THEN Result("error", TRUE, <<>>, FALSE, <<>>, <<>>, <<>>)
  ELSE AnalyseFixed(transcript, extracted.json, validate_and_fix_json_data(extracted.json))

\* line 860: the object validate_and_fix_json_data is called with; NoJson
\* when the call raised before that line
ValidatedJson(extracted) ==
  IF extracted.ok /\ extracted.json.kind # "empty" /\ ~LenRaises(extracted.json)
    THEN extracted.json ELSE NoJson

\* get_most_relevant_parts_by_transcript from Step 4 (line 828) to its return
AnalyseResponse(transcript, text) == AnalyseJson(transcript, extract_json_from_text(text))

\* ------------------------------------------------------------------------
\* Inputs: transcripts, candidate segments, LLM response texts
\* ------------------------------------------------------------------------
SeqsUpTo(S, n) == UNION {[1..k -> S] : k \in 0..n}

Words(ws) == [kind |-> "str", words |-> ws]

Num(v) == [kind |-> "num", val |-> v]

Cand(st, et, txt, sc, why) ==
  [isdict |-> TRUE, start_time |-> st, end_time |-> et, text |-> txt,
   relevance_score |-> sc, reasoning |-> why]

\* six lines of ten seconds, 00:00 to 01:00
TranscriptTens ==
  << Line(<<"0","0",":","0","0">>, <<"0","0",":","1","0">>, <<"we", "start">>),
     Line(<<"0","0",":","1","0">>, <<"0","0",":","2","0">>, <<"keep", "going">>),
     Line(<<"0","0",":","2","0">>, <<"0","0",":","3","0">>, <<"never", "stop.">>),
     Line(<<"0","0",":","3","0">>, <<"0","0",":","4","0">>, <<"rise", "up">>),
     Line(<<"0","0",":","4","0">>, <<"0","0",":","5","0">>, <<"stand", "tall">>),
     Line(<<"0","0",":","5","0">>, <<"0","1",":","0","0">>, <<"the", "end.">>) >>

\* a short line followed by a long one: 00:00-00:25, 00:25-01:01
TranscriptLong ==
  << Line(<<"0","0",":","0","0">>, <<"0","0",":","2","5">>, <<"we", "start">>),
     Line(<<"0","0",":","2","5">>, <<"0","1",":","0","1">>, <<"and", "go", "on.">>) >>

Transcripts == {<<>>, TranscriptTens, TranscriptLong}

\* well-formed candidates inside the transcripts
CandA == Cand(Str(<<"0","0",":","0","0">>), Str(<<"0","0",":","3","0">>),
              Words(<<"we", "start", "keep">>), Num(9), "rA")
CandB == Cand(Str(<<"0","0",":","0","0",":","1","0">>), Str(<<"0","0",":","0","0",":","5","0">>),
              Words(<<"keep", "going", "never">>), Num(5), "rB")
\* timestamps beyond the end of every transcript
CandC == Cand(Str(<<"5","0",":","0","0">>), Str(<<"5","0",":","4","5">>),
              Words(<<"not", "in", "transcript">>), Num(7), "rC")
\* too short (10 s)
CandS == Cand(Str(<<"0","0",":","0","0">>), Str(<<"0","0",":","1","0">>),
              Words(<<"we", "start", "here">>), Num(8), "rS")
\* score out of range (1.2)
CandD == Cand(Str(<<"0","0",":","1","0">>), Str(<<"0","0",":","5","0">>),
              Words(<<"keep", "going", "never">>), Num(12), "rD")
\* relevance_score null
CandN == Cand(Str(<<"0","0",":","0","0">>), Str(<<"0","0",":","3","0">>),
              Words(<<"we", "start", "keep">>), [kind |-> "null", val |-> 0], "rN")
\* an entry that is not an object
CandX == [Cand(Str(<<>>), Str(<<>>), Words(<<>>), Num(0), "") EXCEPT !.isdict = FALSE]
\* text that is not a string (a number)
CandY == Cand(Str(<<"0","0",":","2","0">>), Str(<<"0","0",":","5","5">>),
              [kind |-> "num", words |-> <<>>], Num(6), "rY")
\* relevance_score a non-numeric string
CandZ == Cand(Str(<<"0","0",":","3","0">>), Str(<<"0","1",":","0","0">>),
              Words(<<"rise", "up", "stand">>), [kind |-> "str", val |-> 0], "rZ")

\* two more short candidates, starting at later transcript lines
CandS20 == Cand(Str(<<"0","0",":","2","0">>), Str(<<"0","0",":","2","5">>),
                Words(<<"never", "stop", "now">>), Num(3), "rS20")
CandS30 == Cand(Str(<<"0","0",":","3","0">>), Str(<<"0","0",":","3","5">>),
                Words(<<"rise", "up", "now">>), Num(6), "rS30")

ValidPool == {CandA, CandB}

Pool == ValidPool \cup {CandC, CandS, CandD, CandN, CandX, CandY, CandZ}

\* every short list over the whole pool, and longer lists of well-formed
\* candidates (long enough for the trim to MAX_SEGMENTS to cut)
\* two accepted candidates and enough short ones for the fallback to bring
\* the analysis above MAX_SEGMENTS
OverfullLists ==
  { <<CandB, CandC, CandS, CandS20, CandS30>>,
    <<CandS30, CandS20, CandS, CandC, CandB>> }

CandLists ==
  SeqsUpTo(Pool, MaxCands) \cup SeqsUpTo(ValidPool, MaxValidCands) \cup OverfullLists

List(items) == [kind |-> "list", items |-> items]

\* the objects an LLM answer may contain
JsonDicts ==
  {Json("dict", List(items), NoList, sm) : items \in CandLists, sm \in {"str", "null"}}
  \cup {Json("dict", segs, List(<<CandA, CandS>>), "absent") : segs \in {NoList, List(<<>>)}}

\* the text is exactly the JSON object
PlainText(j) == [direct |-> Parsed(j), fenced |-> ParseFail, brace |-> Parsed(j)]

\* the object is inside a fenced code block, with or without the fence marks
FencedText(j) == [direct |-> ParseFail, fenced |-> Parsed(j), brace |-> Parsed(j)]

\* the object follows some prose
ProseText(j) == [direct |-> ParseFail, fenced |-> ParseFail, brace |-> Parsed(j)]

GarbageText == [direct |-> ParseFail, fenced |-> ParseFail, brace |-> ParseFail]

OddJsons ==
  { Json("dict", [kind |-> "null", items |-> <<>>], NoList, "str"),
    Json("list", NoList, NoList, "absent"),
    NoJson }

RawTexts ==
  {PlainText(j) : j \in JsonDicts \cup OddJsons}
  \cup {FencedText(j) : j \in OddJsons \cup {Json("dict", List(<<CandA, CandS>>), NoList, "str")}}
  \cup {ProseText(Json("dict", List(<<CandB, CandD>>), NoList, "str")), GarbageText}

\* ------------------------------------------------------------------------
\* State
\* ------------------------------------------------------------------------
VARIABLES
  transcript,          \* the transcript passed to get_most_relevant_parts_by_transcript
  pc,                  \* "start", "preflight", "calling", "respond", "done"
  preflight,           \* outcome of test_ollama_connection, "" before it ran
  attempt,             \* loop variable of call_ollama
  requests,            \* number of generation requests call_ollama has sent
  last_outcome,        \* outcome of the latest generation request
  ollama_result,       \* "pending", "text" (a response was returned) or "none"
  raw_text,            \* the response text call_ollama returned
  outcome,             \* "", "no_transcript", "preflight_failed", "error", "ok"
  first_pass,          \* what validate_segments accepted at first pass
  expander_attempted,  \* _expand_segments_with_transcript was called
  expanded,            \* what the expander emitted
  combined,            \* the accepted segments before the final sort and trim
  analysis,            \* most_relevant_segments of the returned TranscriptAnalysis
  preflight_requests,  \* HTTP requests test_ollama_connection has sent
  json_found,          \* extract_json_from_text returned a truthy value
  json_data            \* the object handed to validate_and_fix_json_data

\* create_clips_from_segments (video_utils.py)
VARIABLES
  render_pc,           \* "idle", "loop" (in the for loop) or "returned"
  render_segments,     \* the argument segments
  source_duration,     \* video.duration of the source file, in ms
  render_i,            \* the loop variable i: segments visited so far
  clips_info,          \* the list that is returned
  render_called,       \* indices for which create_optimized_clip was called
  rendered             \* the files write_videofile has written: index and media length

rendererVars ==
  <<render_pc, render_segments, source_duration, render_i, clips_info, render_called,
    rendered>>

\* create_whisper_subtitles (video_utils.py)
VARIABLES
  subtitle_pc,         \* "idle", "call" or "returned"
  cached_words,        \* the words of the transcript cache of the source
  clip_window,         \* start_time, end_time of the clip and video.duration, in ms
  subtitle_clips       \* the subtitle clips returned: start and duration in ms

subtitleVars == <<subtitle_pc, cached_words, clip_window, subtitle_clips>>

\* detect_optimal_square_crop_region (video_utils.py)
VARIABLES
  crop_pc,             \* "idle", "call" or "returned"
  frame_size,          \* video_clip.size: <<width, height>>
  crop_faces,          \* what detect_faces_in_clip returned
  crop_region          \* the returned (x_offset, y_offset, new_width, new_height)

cropVars == <<crop_pc, frame_size, crop_faces, crop_region>>

\* get_video_transcript and the transcript cache (video_utils.py)
VARIABLES
  _whisper_model_cache, \* the module global: 0 (None) or the instance it holds
  load_count,          \* calls of load_model so far; instance k is the k-th loaded
  call_pc,             \* per caller: "idle", "check", "load", "store", "use",
                       \* "transcribe", "done" or "raised"
  call_path,           \* per caller: the argument video_path
  call_loaded,         \* per caller: the instance load_model returned to it
  call_model,          \* per caller: the local variable model
  call_lines,          \* per caller: the lines of the returned transcript
  cache_files          \* the transcript cache files on disk, by path

transcriberVars ==
  <<_whisper_model_cache, load_count, call_pc, call_path, call_loaded, call_model,
    call_lines, cache_files>>

videoVars == <<rendererVars, subtitleVars, cropVars, transcriberVars>>

\* format_timestamp followed by the two parse_timestamp_to_seconds
VARIABLES
  stamp_pc,            \* "idle", "start", "formatted" or "parsed"
  stamp_seconds,       \* the number of seconds that is formatted
  stamp_text,          \* what format_timestamp returned
  stamp_ai,            \* what ai.parse_timestamp_to_seconds made of it
  stamp_video          \* what video_utils.parse_timestamp_to_seconds made of it

stampVars == <<stamp_pc, stamp_seconds, stamp_text, stamp_ai, stamp_video>>

\* split_video_by_duration and split_video_by_duration_ffmpeg (video_utils.py)
VARIABLES
  split_pc,            \* "idle", "test" (at the loop test), "body" or "returned"
  split_variant,       \* "moviepy" (split_video_by_duration) or "ffmpeg"
  total_duration,      \* duration of the video, in ms
  duration_seconds,    \* the argument duration_seconds
  split_current_start, \* the loop variable current_start, in ms
  clip_count,          \* the loop variable clip_count
  split_clips_info     \* the list that is returned

splitVars ==
  <<split_pc, split_variant, total_duration, duration_seconds,
    split_current_start,
    clip_count, split_clips_info>>

toolVars == <<stampVars, splitVars>>

analyserVars ==
  <<transcript, pc, preflight, attempt, requests, last_outcome, ollama_result,
    raw_text, outcome, first_pass, expander_attempted, expanded, combined,
    analysis, preflight_requests, json_found, json_data>>

vars == <<analyserVars, videoVars, toolVars>>

analysisVars ==
  <<first_pass, expander_attempted, expanded, combined, analysis, json_found, json_data>>

callVars == <<attempt, requests, last_outcome, ollama_result, raw_text>>

RendererIdle ==
  /\ render_pc = "idle"
  /\ render_segments = <<>>
  /\ source_duration = 0
  /\ render_i = 0
  /\ clips_info = <<>>
  /\ render_called = {}
  /\ rendered = <<>>

SubtitleIdle ==
  /\ subtitle_pc = "idle"
  /\ cached_words = <<>>
  /\ clip_window = [start_time |-> 0, end_time |-> 0, video_duration |-> 0]
  /\ subtitle_clips = <<>>

CropIdle ==
  /\ crop_pc = "idle"
  /\ frame_size = <<0, 0>>
  /\ crop_faces = <<>>
  /\ crop_region = <<0, 0, 0, 0>>

\* no call of get_video_transcript was made and no cache file exists
TranscriberIdle ==
  /\ _whisper_model_cache = 0
  /\ load_count = 0
  /\ call_pc = <<>>
  /\ call_path = <<>>
  /\ call_loaded = <<>>
  /\ call_model = <<>>
  /\ call_lines = <<>>
  /\ cache_files = <<>>

VideoIdle == RendererIdle /\ SubtitleIdle /\ CropIdle /\ TranscriberIdle

StampIdle ==
  /\ stamp_pc = "idle"
  /\ stamp_seconds = 0
  /\ stamp_text = <<>>
  /\ stamp_ai = ParseError
  /\ stamp_video = ParseError

SplitIdle ==
  /\ split_pc = "idle"
  /\ split_variant = ""
  /\ total_duration = 0
  /\ duration_seconds = 0
  /\ split_current_start = 0
  /\ clip_count = 0
  /\ split_clips_info = <<>>

ToolsIdle == StampIdle /\ SplitIdle

AnalyserInit ==
  /\ transcript \in Transcripts
  /\ pc = "start"
  /\ preflight = ""
  /\ attempt = 0
  /\ requests = 0
  /\ last_outcome = ""
  /\ ollama_result = "pending"
  /\ raw_text = GarbageText
  /\ outcome = ""
  /\ first_pass = <<>>
  /\ expander_attempted = FALSE
  /\ expanded = <<>>
  /\ combined = <<>>
  /\ analysis = <<>>
  /\ preflight_requests = 0
  /\ json_found = FALSE
  /\ json_data = NoJson

\* no call of the analyser is in progress
AnalyserIdle == AnalyserInit /\ transcript = <<>>

Init == AnalyserInit /\ VideoIdle /\ ToolsIdle

\* lines 775-782: an empty transcript returns at once
Start ==
  /\ pc = "start"
  /\ IF transcript = <<>>
       THEN pc' = "done" /\ outcome' = "no_transcript"
       ELSE pc' = "preflight" /\ outcome' = outcome
  /\ UNCHANGED <<transcript, preflight, preflight_requests, callVars, analysisVars, videoVars, toolVars>>

PreflightOutcomes == {"ok", "tags_failed", "generate_failed", "generate_timeout"}

PreflightPassedUnlessTimeout(o) == o # "generate_timeout"

\* test_ollama_connection returns True only at line 238, after the tags
\* request and the test generation both succeeded
PreflightPassed(o) == o = "ok"

\* lines 183-198 return after the tags request alone; every other outcome
\* has also sent the test generation request of line 225
PreflightRequests(o) == IF o = "tags_failed" THEN 1 ELSE 2

\* test_ollama_connection, and lines 791-798 of the caller
Preflight(o) ==
  /\ pc = "preflight"
  /\ preflight' = o
  /\ preflight_requests' = preflight_requests + PreflightRequests(o)
  /\ IF PreflightPassed(o)
       THEN pc' = "calling" /\ outcome' = outcome
       ELSE pc' = "done" /\ outcome' = "preflight_failed"
  /\ UNCHANGED <<transcript, callVars, analysisVars, videoVars, toolVars>>

\* the ways one generation request fails: the except branches of call_ollama
\* (HTTPError split by status: 404 stands for a 4xx other than 408 and 429)
\* and the empty response text
FailureOutcomes ==
  {"timeout", "connection_error", "http_404", "http_429", "http_500",
   "empty_body", "other_error"}

\* line 290: for attempt in range(max_retries + 1)
MaxAttempts == max_retries + 1

ShouldRetryOneLess(a) == a < max_retries - 1

\* if attempt < max_retries: continue   (in every failure branch)
ShouldRetry(a) == a < max_retries

\* one generation request of call_ollama that fails with outcome o; when the
\* call then returns None the caller raises and returns the failed analysis
\* (lines 820-821 and 917-926)
AttemptFails(o) ==
  /\ pc = "calling"
  /\ attempt < MaxAttempts
  /\ requests' = requests + 1
  /\ last_outcome' = o
  /\ IF ShouldRetry(attempt) /\ attempt + 1 < MaxAttempts
       THEN /\ attempt' = attempt + 1
            /\ UNCHANGED <<pc, ollama_result, outcome>>
       ELSE /\ attempt' = attempt
            /\ ollama_result' = "none"
            /\ outcome' = "error"
            /\ pc' = "done"
  /\ UNCHANGED <<transcript, preflight, preflight_requests, raw_text, analysisVars, videoVars, toolVars>>

\* one generation request that yields a non-empty response text
AttemptResponds(text) ==
  /\ pc = "calling"
  /\ attempt < MaxAttempts
  /\ requests' = requests + 1
  /\ last_outcome' = "body"
  /\ ollama_result' = "text"
  /\ raw_text' = text
  /\ pc' = "respond"
  /\ UNCHANGED <<transcript, preflight, preflight_requests, attempt, outcome, analysisVars, videoVars, toolVars>>

\* lines 828-915: recovery, validation, fallback, sort and trim
Analyse ==
  /\ pc = "respond"
  /\ \E r \in {AnalyseResponse(transcript, raw_text)} :
        /\ outcome' = r.outcome
        /\ first_pass' = r.first_pass
        /\ expander_attempted' = r.expander_attempted
        /\ expanded' = r.expanded
        /\ combined' = r.combined
        /\ analysis' = r.segments
        /\ json_found' = r.json_found
  /\ json_data' = ValidatedJson(extract_json_from_text(raw_text))
  /\ pc' = "done"
  /\ UNCHANGED <<transcript, preflight, preflight_requests, callVars, videoVars, toolVars>>

Next ==
  \/ Start
  \/ \E o \in PreflightOutcomes : Preflight(o)
  \/ \E o \in FailureOutcomes : AttemptFails(o)
  \/ \E text \in RawTexts : AttemptResponds(text)
  \/ Analyse

Spec == Init /\ [][Next]_vars

\* every generation request ends (with a response, an error, or the timeout
\* OLLAMA_TIMEOUT) and the sleep between two requests is finite, so a pending
\* call_ollama eventually takes its next step
CallStep ==
  \/ \E o \in FailureOutcomes : AttemptFails(o)
  \/ \E text \in RawTexts : AttemptResponds(text)

FairSpec == Spec /\ WF_vars(CallStep)

\* ------------------------------------------------------------------------
\* The renderer loop (video_utils.py). Times are integers of milliseconds.
\* ------------------------------------------------------------------------
\* longest segment list handed to create_clips_from_segments
MaxSegments == 3

AllDigitsOrEmpty(s) == \A k \in 1..Len(s) : IsDigit(s[k])

\* the first three decimals of a fraction, as milliseconds
FracMs(f) == DigitsVal(SubSeq(f \o <<"0", "0", "0">>, 1, 3))

\* float(ts) on the decimal forms "12", "12.5", "12." and ".5" with an
\* optional sign (the forms a timestamp can take); ms below are truncated
PyFloatParts(parts, negative) ==
  IF /\ Len(parts) \in {1, 2}
     /\ \A k \in 1..Len(parts) : AllDigitsOrEmpty(parts[k])
     /\ \E k \in 1..Len(parts) : parts[k] # <<>>
    THEN [ok |-> TRUE,
          val |-> (IF negative THEN 0 - 1 ELSE 1)
                    * (DigitsVal(parts[1]) * 1000
                         + (IF Len(parts) = 2 THEN FracMs(parts[2]) ELSE 0))]
    ELSE ParseError

PyFloat(t) ==
  IF t # <<>> /\ Head(t) \in {"-", "+"}
    THEN PyFloatParts(Split(Tail(t), "."), Head(t) = "-")
    ELSE PyFloatParts(Split(t, "."), FALSE)

\* lines 363-371 of video_utils.parse_timestamp_to_seconds: the int() parts
VideoCombine(hours, minutes, seconds) ==
  IF ~(hours.ok /\ minutes.ok /\ seconds.ok) THEN ParseError
  ELSE [ok |-> TRUE, val |-> (hours.val * 3600 + minutes.val * 60 + seconds.val) * 1000]

VideoParseParts(parts) ==
  IF Len(parts) = 2
    THEN VideoCombine([ok |-> TRUE, val |-> 0], PyInt(parts[1]), PyInt(parts[2]))
  ELSE IF Len(parts) = 3
    THEN VideoCombine(PyInt(parts[1]), PyInt(parts[2]), PyInt(parts[3]))
  ELSE ParseError

\* lines 359-372, after ts = str(timestamp_str).strip()
VideoParseStripped(ts) ==
  IF Contains(ts, ":") THEN VideoParseParts(Split(ts, ":")) ELSE PyFloat(ts)

\* video_utils.parse_timestamp_to_seconds (the renderer's parser); the value
\* is in ms
video_utils_parse_timestamp_to_seconds(timestamp_str) ==
  VideoParseStripped(Strip(timestamp_str))

NoClip == [success |-> FALSE, media_duration |-> 0]

\* create_optimized_clip: start_time, end_time and video.duration in ms; env
\* is what the media backend does: "written" (every call succeeds),
\* "open_failed" (VideoFileClip raises) or "render_failed" (cropping,
\* subtitles, compositing or write_videofile raises)
create_optimized_clip(start_time, end_time, duration, env) ==
  IF end_time - start_time <= 0 THEN NoClip
  ELSE IF env = "open_failed" THEN NoClip
  ELSE IF start_time >= duration THEN NoClip
  ELSE IF env = "render_failed" THEN NoClip
  ELSE [success |-> TRUE,
        media_duration |-> (IF end_time < duration THEN end_time ELSE duration) - start_time]

RenderEnvs == {"written", "open_failed", "render_failed"}

\* what one pass of the loop body adds: records to clips_info, the index to
\* the calls of create_optimized_clip, files to the rendered ones
NoRecord == [records |-> <<>>, called |-> {}, media |-> <<>>, failed |-> TRUE]

\* lines 854-866: the record appended when create_optimized_clip succeeded
ClipInfo(segment, i, duration) ==
  [clip_id |-> i + 1, start_time |-> segment.start_time, end_time |-> segment.end_time,
   duration |-> duration, text |-> segment.text,
   relevance_score |-> segment.relevance_score, reasoning |-> segment.reasoning]

\* lines 849-869
RenderClip(segment, i, duration, clip) ==
  [records |-> IF clip.success THEN <<ClipInfo(segment, i, duration)>> ELSE <<>>,
   called |-> {i + 1},
   media |-> IF clip.success
               THEN <<[index |-> i + 1, media_duration |-> clip.media_duration]>>
               ELSE <<>>,
   failed |-> ~clip.success]

\* lines 839-852: after the two timestamps are parsed (a raised ValueError
\* is caught by the except of line 871)
RenderParsed(segment, i, video_duration, env, start_seconds, end_seconds) ==
  IF ~(start_seconds.ok /\ end_seconds.ok) THEN NoRecord
  ELSE IF end_seconds.val - start_seconds.val <= 0 THEN NoRecord
  ELSE RenderClip(segment, i, end_seconds.val - start_seconds.val,
                  create_optimized_clip(start_seconds.val, end_seconds.val,
                                        video_duration, env))

\* the body of the for loop of create_clips_from_segments, lines 835-872
RenderOne(segment, i, video_duration, env) ==
  RenderParsed(segment, i, video_duration, env,
               video_utils_parse_timestamp_to_seconds(segment.start_time),
               video_utils_parse_timestamp_to_seconds(segment.end_time))

NextIndexAbortOnFailure(i, n, failed) == IF failed THEN n ELSE i + 1

\* the for loop goes on to the next segment whether or not the body failed:
\* the try/except of lines 836-872 is inside the loop
NextIndex(i, n, failed) == i + 1

\* a segment dict as the analysis hands it over
Segment(st, et, text) ==
  [start_time |-> st, end_time |-> et, text |-> text, relevance_score |-> 8,
   reasoning |-> "why"]

\* 00:10-00:50, inside every source
SegInside == Segment(<<"0","0",":","1","0">>, <<"0","0",":","5","0">>, "inside")

\* 00:40-01:20, ends after the end of the short source
SegOverEnd == Segment(<<"0","0",":","4","0">>, <<"0","1",":","2","0">>, "over the end")

\* 02:00-02:40, starts after the end of the short source
SegBeyond == Segment(<<"0","2",":","0","0">>, <<"0","2",":","4","0">>, "beyond")

\* end before start
SegBackwards == Segment(<<"0","0",":","5","0">>, <<"0","0",":","2","0">>, "backwards")

\* a start_time that is no timestamp
SegMalformed == Segment(<<"a","b","c">>, <<"0","0",":","3","0">>, "malformed")

\* 00:10.5-00:50, a start_time with a fraction of a second
SegFraction ==
  Segment(<<"0","0",":","1","0",".","5">>, <<"0","0",":","5","0">>, "fraction")

SegmentPool ==
  {SegInside, SegOverEnd, SegBeyond, SegBackwards, SegMalformed, SegFraction}

\* a source of 60.5 s and one of 130 s
SourceDurations == {60500, 130000}

RenderInit ==
  /\ render_pc = "loop"
  /\ render_segments \in SeqsUpTo(SegmentPool, MaxSegments)
  /\ source_duration \in SourceDurations
  /\ render_i = 0
  /\ clips_info = <<>>
  /\ render_called = {}
  /\ rendered = <<>>

\* one pass of the loop of create_clips_from_segments
ProcessSegment(env) ==
  /\ render_pc = "loop"
  /\ render_i < Len(render_segments)
  /\ \E r \in {RenderOne(render_segments[render_i + 1], render_i, source_duration, env)} :
       /\ clips_info' = clips_info \o r.records
       /\ render_called' = render_called \cup r.called
       /\ rendered' = rendered \o r.media
       /\ render_i' = NextIndex(render_i, Len(render_segments), r.failed)
  /\ UNCHANGED <<render_pc, render_segments, source_duration, analyserVars, toolVars, subtitleVars,
                 cropVars, transcriberVars>>

\* line 875: return clips_info
ReturnClips ==
  /\ render_pc = "loop"
  /\ render_i = Len(render_segments)
  /\ render_pc' = "returned"
  /\ UNCHANGED <<render_segments, source_duration, render_i, clips_info, render_called,
                 rendered, analyserVars, toolVars, subtitleVars, cropVars, transcriberVars>>

RenderNext ==
  \/ \E env \in RenderEnvs : ProcessSegment(env)
  \/ ReturnClips

\* the state in which only this subsystem is started
RenderSpecInit ==
  RenderInit /\ AnalyserIdle /\ SubtitleIdle /\ CropIdle /\ TranscriberIdle
    /\ ToolsIdle

RenderSpec == RenderSpecInit /\ [][RenderNext]_vars

\* ------------------------------------------------------------------------
\* Subtitles from the cached words (video_utils.create_whisper_subtitles).
\* Word times are the cache's integers of ms; the clip-relative times, which
\* the code holds in seconds (x / 1000.0), are kept in ms.
\* ------------------------------------------------------------------------
\* longest cached word list
MaxWords == 4

words_per_subtitle == 3

RelativeEndUnclamped(word_end, clip_start_ms, clip_end_ms) == word_end - clip_start_ms

\* line 611: min((clip_end_ms - clip_start_ms) / 1000.0, (word_end - clip_start_ms) / 1000.0)
RelativeEnd(word_end, clip_start_ms, clip_end_ms) ==
  IF clip_end_ms - clip_start_ms < word_end - clip_start_ms
    THEN clip_end_ms - clip_start_ms ELSE word_end - clip_start_ms

\* line 610: max(0, (word_start - clip_start_ms) / 1000.0)
RelativeStart(word_start, clip_start_ms) ==
  IF word_start - clip_start_ms > 0 THEN word_start - clip_start_ms ELSE 0

\* lines 609-618: the entries (none or one) a cached word adds to relevant_words
RelevantWord(word_data, clip_start_ms, clip_end_ms) ==
  IF ~(word_data.start < clip_end_ms /\ word_data.end > clip_start_ms) THEN <<>>
  ELSE IF ~(RelativeEnd(word_data.end, clip_start_ms, clip_end_ms)
              > RelativeStart(word_data.start, clip_start_ms)) THEN <<>>
  ELSE <<[text |-> word_data.text,
          start |-> RelativeStart(word_data.start, clip_start_ms),
          end |-> RelativeEnd(word_data.end, clip_start_ms, clip_end_ms)]>>

\* lines 605-618
RECURSIVE RelevantWords(_, _, _)
RelevantWords(words, clip_start_ms, clip_end_ms) ==
  IF words = <<>> THEN <<>>
  ELSE RelevantWord(Head(words), clip_start_ms, clip_end_ms)
       \o RelevantWords(Tail(words), clip_start_ms, clip_end_ms)

\* lines 640-690: the subtitle (none or one) of the word group that starts
\* at position first; no subtitle when its duration is not positive or when
\* TextClip raises with both methods (group number in failing)
SubtitleOf(relevant_words, first, last, failing) ==
  IF relevant_words[last].end - relevant_words[first].start <= 0 THEN <<>>
  ELSE IF ((first - 1) \div words_per_subtitle) + 1 \in failing THEN <<>>
  ELSE <<[first_word |-> relevant_words[first].text,
          start |-> relevant_words[first].start,
          duration |-> relevant_words[last].end - relevant_words[first].start]>>

\* lines 639-690: for i in range(0, len(relevant_words), words_per_subtitle)
RECURSIVE SubtitleGroups(_, _, _)
SubtitleGroups(relevant_words, first, failing) ==
  IF first > Len(relevant_words) THEN <<>>
  ELSE SubtitleOf(relevant_words, first,
                  IF first + words_per_subtitle - 1 < Len(relevant_words)
                    THEN first + words_per_subtitle - 1 ELSE Len(relevant_words),
                  failing)
       \o SubtitleGroups(relevant_words, first + words_per_subtitle, failing)

\* create_whisper_subtitles for the words of the transcript cache (<<>> when
\* there is no cache) and the clip window in ms
create_whisper_subtitles(words, clip_start_ms, clip_end_ms, failing) ==
  SubtitleGroups(RelevantWords(words, clip_start_ms, clip_end_ms), 1, failing)

Word(text, start, end) == [text |-> text, start |-> start, end |-> end]

\* cached words around the windows below: across the start of both
\* windows, inside both, across the end of each, after the end of the short
\* source, without length, and with the times 0 of a word cached without
\* timestamps
WordPool ==
  { Word("across", 8000, 41000), Word("inside", 45000, 46000),
    Word("late", 49000, 62000), Word("after", 70000, 71000),
    Word("point", 47000, 47000), Word("untimed", 0, 0) }

\* the arguments start_time, end_time of create_optimized_clip and the
\* duration of the source, in ms
Window(start_time, end_time, video_duration) ==
  [start_time |-> start_time, end_time |-> end_time, video_duration |-> video_duration]

Windows == {Window(10000, 50000, 60500), Window(40000, 80000, 60500)}

\* line 726: end_time = min(end_time, video.duration)
ClampedEnd(w) == IF w.end_time < w.video_duration THEN w.end_time ELSE w.video_duration

\* the groups of words for which no TextClip can be made
FailingGroups == {{}, {1}, {2}}

SubtitleInit ==
  /\ subtitle_pc = "call"
  /\ cached_words \in SeqsUpTo(WordPool, MaxWords)
  /\ clip_window \in Windows
  /\ subtitle_clips = <<>>

\* lines 726 and 757-765 of create_optimized_clip: the subtitles of one clip
MakeSubtitles(failing) ==
  /\ subtitle_pc = "call"
  /\ subtitle_clips' =
       create_whisper_subtitles(cached_words, clip_window.start_time,
                                ClampedEnd(clip_window), failing)
  /\ subtitle_pc' = "returned"
  /\ UNCHANGED <<cached_words, clip_window, analyserVars, toolVars, rendererVars, cropVars,
                 transcriberVars>>

SubtitleNext == \E failing \in FailingGroups : MakeSubtitles(failing)

\* the state in which only this subsystem is started
SubtitleSpecInit ==
  SubtitleInit /\ AnalyserIdle /\ RendererIdle /\ CropIdle /\ TranscriberIdle
    /\ ToolsIdle

SubtitleSpec == SubtitleSpecInit /\ [][SubtitleNext]_vars

\* ------------------------------------------------------------------------
\* The square crop (video_utils.detect_optimal_square_crop_region). A face
\* is <<x, y, area, confidence>> with the confidence in hundredths.
\* ------------------------------------------------------------------------
\* most face detections that survive for one clip
MaxFaces == 2

round_to_even_not(value) == value

\* line 377
round_to_even(value) == value - (value % 2)

\* int(n / d) for d > 0: the quotient truncated towards zero
IntQuotient(n, d) == IF n >= 0 THEN n \div d ELSE 0 - ((0 - n) \div d)

RECURSIVE SumOver(_, _, _)
\* sum(coord * area * confidence for ... in face_centers), with coord the
\* component c of a face (0 for the constant 1)
SumOver(face_centers, c, acc) ==
  IF face_centers = <<>> THEN acc
  ELSE SumOver(Tail(face_centers), c,
               acc + (IF c = 0 THEN 1 ELSE Head(face_centers)[c])
                       * Head(face_centers)[3] * Head(face_centers)[4])

\* max(0, min(int(weighted - new_size // 2), original - new_size)) with
\* weighted = weighted_sum / total_weight (lines 395-396)
FaceOffset(weighted_sum, total_weight, original, new_size) ==
  IF IntQuotient(weighted_sum - (new_size \div 2) * total_weight, total_weight)
       < original - new_size
    THEN IF IntQuotient(weighted_sum - (new_size \div 2) * total_weight, total_weight) > 0
           THEN IntQuotient(weighted_sum - (new_size \div 2) * total_weight, total_weight)
           ELSE 0
    ELSE IF original - new_size > 0 THEN original - new_size ELSE 0

\* (original - new_size) // 2 if original > new_size else 0 (lines 400-404)
CentredOffset(original, new_size) ==
  IF original > new_size THEN (original - new_size) \div 2 ELSE 0

\* lines 392-404: the offset along one axis (c = 1 for x, 2 for y)
AxisOffset(face_centers, c, total_weight, original, new_size) ==
  IF face_centers # <<>> /\ total_weight > 0
    THEN FaceOffset(SumOver(face_centers, c, 0), total_weight, original, new_size)
    ELSE CentredOffset(original, new_size)

\* lines 384-408, once crop_size = min(original_width, original_height)
SquareCrop(original_width, original_height, face_centers, new_size) ==
  << round_to_even(AxisOffset(face_centers, 1, SumOver(face_centers, 0, 0),
                              original_width, new_size)),
     round_to_even(AxisOffset(face_centers, 2, SumOver(face_centers, 0, 0),
                              original_height, new_size)),
     new_size, new_size >>

\* detect_optimal_square_crop_region for video_clip.size = <<width, height>>
\* and the detections detect_faces_in_clip returned
detect_optimal_square_crop_region(size, face_centers) ==
  SquareCrop(size[1], size[2], face_centers,
             round_to_even(IF size[1] < size[2] THEN size[1] ELSE size[2]))

\* frame sizes: landscape, portrait, square, with odd and even sides
FrameSizes == {<<16, 9>>, <<9, 16>>, <<7, 7>>, <<8, 8>>, <<11, 6>>}

\* detections: centre, area and confidence
FacePool ==
  {<<x, y, w[1], w[2]>> : x \in {0, 5, 10, 15}, y \in {0, 8}, w \in {<<4, 50>>, <<9, 90>>}}

\* the detections whose centre is inside the frame
FacesIn(size) == {f \in FacePool : f[1] < size[1] /\ f[2] < size[2]}

CropInit ==
  /\ crop_pc = "call"
  /\ frame_size \in FrameSizes
  /\ crop_faces \in SeqsUpTo(FacePool, MaxFaces)
  /\ \A k \in 1..Len(crop_faces) : crop_faces[k] \in FacesIn(frame_size)
  /\ crop_region = <<0, 0, 0, 0>>

\* line 734 of create_optimized_clip: the crop region of one clip
DetectCrop ==
  /\ crop_pc = "call"
  /\ crop_region' = detect_optimal_square_crop_region(frame_size, crop_faces)
  /\ crop_pc' = "returned"
  /\ UNCHANGED <<frame_size, crop_faces, analyserVars, toolVars, rendererVars, subtitleVars,
                 transcriberVars>>

CropNext == DetectCrop

\* the state in which only this subsystem is started
CropSpecInit ==
  CropInit /\ AnalyserIdle /\ RendererIdle /\ SubtitleIdle /\ TranscriberIdle
    /\ ToolsIdle

CropSpec == CropSpecInit /\ [][CropNext]_vars

\* ------------------------------------------------------------------------
\* The transcriber (video_utils.get_video_transcript) and the transcript
\* cache. A Whisper time is [none, ms]: None, or a number of seconds held in
\* ms. A word text is a sequence of characters.
\* ------------------------------------------------------------------------
\* concurrent callers of get_video_transcript in the process
MaxCallers == 2

max_words_per_segment == 8

Callers == 1..MaxCallers

At(ms) == [none |-> FALSE, ms |-> ms]

NoTime == [none |-> TRUE, ms |-> 0]

format_timestamp_whole_seconds(seconds) ==
  Fmt02d(seconds.ms \div 60000) \o <<":">> \o Fmt02d(seconds.ms \div 1000)

\* video_utils.format_timestamp for a time that is not None
format_timestamp(seconds) ==
  Fmt02d(seconds.ms \div 60000) \o <<":">> \o Fmt02d((seconds.ms % 60000) \div 1000)

\* w_text.endswith('.') or w_text.endswith('!') or w_text.endswith('?')
EndsSentence(w_text) == w_text # <<>> /\ w_text[Len(w_text)] \in {".", "!", "?"}

\* line 250: not w_text or w_start is None or w_end is None
Incomplete(word) == Strip(word.word) = <<>> \/ word.start.none \/ word.end.none

\* lines 266-270: the end of the last word of the segment that has one
RECURSIVE LastValidEnd(_, _)
LastValidEnd(words, k) ==
  IF k = 0 THEN NoTime
  ELSE IF ~words[k].end.none THEN words[k].end
  ELSE LastValidEnd(words, k - 1)

\* lines 265-276: the words left over when the segment ends
RestLine(current_segment, current_start, last_valid_end) ==
  IF current_segment = <<>> \/ current_start.none \/ last_valid_end.none THEN <<>>
  ELSE <<Line(format_timestamp(current_start), format_timestamp(last_valid_end),
              current_segment)>>

\* lines 246-276: the lines of the words k.. of a segment, given the loop's
\* current_segment, current_start and segment_word_count
RECURSIVE WordLines(_, _, _, _, _)
WordLines(words, k, current_segment, current_start, segment_word_count) ==
  IF k > Len(words)
    THEN RestLine(current_segment, current_start, LastValidEnd(words, Len(words)))
  ELSE IF Incomplete(words[k])
    THEN WordLines(words, k + 1, current_segment, current_start, segment_word_count)
  ELSE IF segment_word_count + 1 >= max_words_per_segment
            \/ EndsSentence(Strip(words[k].word))
    THEN <<Line(format_timestamp(IF current_start.none THEN words[k].start
                                                       ELSE current_start),
                format_timestamp(words[k].end),
                Append(current_segment, Strip(words[k].word)))>>
         \o WordLines(words, k + 1, <<>>, NoTime, 0)
  ELSE WordLines(words, k + 1, Append(current_segment, Strip(words[k].word)),
                 IF current_start.none THEN words[k].start ELSE current_start,
                 segment_word_count + 1)

\* lines 241-286: the lines of one Whisper segment; a segment without words
\* gives its own text (its sequence of words) under its own times
SegmentLines(segment) ==
  IF segment.words # <<>> THEN WordLines(segment.words, 1, <<>>, NoTime, 0)
  ELSE IF ~segment.start.none /\ ~segment.end.none /\ segment.text # <<>>
    THEN <<Line(format_timestamp(segment.start), format_timestamp(segment.end),
                segment.text)>>
  ELSE <<>>

\* lines 238-286: formatted_lines for result["segments"]
RECURSIVE FormattedLines(_)
FormattedLines(segments) ==
  IF segments = <<>> THEN <<>>
  ELSE SegmentLines(Head(segments)) \o FormattedLines(Tail(segments))

\* int((t or 0) * 1000)
CacheMs(t) == IF t.none THEN 0 ELSE t.ms

\* lines 314-320: the cache entries of the words of one segment
RECURSIVE CachedWords(_)
CachedWords(words) ==
  IF words = <<>> THEN <<>>
  ELSE <<[text |-> Strip(Head(words).word), start |-> CacheMs(Head(words).start),
          end |-> CacheMs(Head(words).end)]>>
       \o CachedWords(Tail(words))

\* lines 310-320: words_data
RECURSIVE WordsData(_)
WordsData(segments) ==
  IF segments = <<>> THEN <<>>
  ELSE CachedWords(Head(segments).words) \o WordsData(Tail(segments))

\* a path is its directory and its file name split at the dots
MediaPath(parent, name) == [parent |-> parent, name |-> name]

\* pathlib's Path.with_suffix: the last suffix of the name, when it has one,
\* is replaced
with_suffix(path, suffix) ==
  MediaPath(path.parent,
            (IF Len(path.name) > 1 THEN SubSeq(path.name, 1, Len(path.name) - 1)
                                   ELSE path.name) \o suffix)

\* lines 309 and 336: video_path.with_suffix('.transcript_cache.json')
CachePath(video_path) == with_suffix(video_path, <<"transcript_cache", "json">>)

\* the media files of the process
MediaPaths ==
  { MediaPath("/videos", <<"talk", "mp4">>), MediaPath("/videos", <<"talk", "webm">>),
    MediaPath("/videos", <<"intro", "mp4">>) }

CachePaths == {CachePath(p) : p \in MediaPaths}

NoFile == [present |-> FALSE, origin |-> MediaPath("", <<>>), words |-> <<>>,
           segments |-> <<>>]

\* lines 321-329: the cache file written for video_path (origin records the
\* media file whose transcription wrote it)
CacheFile(video_path, segments) ==
  [present |-> TRUE, origin |-> video_path, words |-> WordsData(segments),
   segments |-> segments]

WhisperWord(word, start, end) == [word |-> word, start |-> start, end |-> end]

WhisperSegment(words, start, end, text) ==
  [words |-> words, start |-> start, end |-> end, text |-> text]

\* what model.transcribe may return as result["segments"]: two sentences;
\* a word without start and a blank word; segments without words, whose
\* text is given by its words (the second has no start, the third is a
\* sentence followed by eight more words); nine words without punctuation;
\* a word one hundred minutes into the media
WhisperResults ==
  { << WhisperSegment(<< WhisperWord(<<" ","h","i">>, At(0), At(400)),
                         WhisperWord(<<" ","y","o","u",".">>, At(400), At(900)),
                         WhisperWord(<<" ","b","y","e">>, At(61000), At(61500)) >>,
                      At(0), At(61500), <<>>) >>,
    << WhisperSegment(<< WhisperWord(<<" ","h","i">>, NoTime, At(400)),
                         WhisperWord(<<" ">>, At(400), At(500)),
                         WhisperWord(<<" ","y","o","u","?">>, At(500), At(900)) >>,
                      At(0), At(900), <<>>) >>,
    << WhisperSegment(<<>>, At(2000), At(4000), <<<<"n","o">>, <<"w","o","r","d","s">>>>),
       WhisperSegment(<<>>, NoTime, At(5000), <<<<"l","o","s","t">>>>) >>,
    << WhisperSegment(<<>>, At(2000), At(9000),
                      <<<<"g","o",".">>>> \o [k \in 1..8 |-> <<"o","n">>]) >>,
    << WhisperSegment([k \in 1..9 |-> WhisperWord(<<" ","a">>, At(k * 1000), At(k * 1000 + 500))],
                      At(1000), At(9500), <<>>) >>,
    << WhisperSegment(<< WhisperWord(<<" ","l","a","t","e",".">>, At(6000000), At(6002000)) >>,
                      At(6000000), At(6002000), <<>>) >> }

TranscribeInit ==
  /\ _whisper_model_cache = 0
  /\ load_count = 0
  /\ call_pc = [t \in Callers |-> "idle"]
  /\ call_path = [t \in Callers |-> MediaPath("", <<>>)]
  /\ call_loaded = [t \in Callers |-> 0]
  /\ call_model = [t \in Callers |-> 0]
  /\ call_lines = [t \in Callers |-> <<>>]
  /\ cache_files = [cp \in CachePaths |-> NoFile]

othersOfTranscriber == <<analyserVars, toolVars, rendererVars, subtitleVars, cropVars>>

\* a caller enters get_video_transcript(video_path)
CallTranscript(t, video_path) ==
  /\ call_pc[t] = "idle"
  /\ call_pc' = [call_pc EXCEPT ![t] = "check"]
  /\ call_path' = [call_path EXCEPT ![t] = video_path]
  /\ UNCHANGED <<_whisper_model_cache, load_count, call_loaded, call_model, call_lines,
                 cache_files, othersOfTranscriber>>

\* line 224: if _whisper_model_cache is None
CheckModel(t) ==
  /\ call_pc[t] = "check"
  /\ call_pc' = [call_pc EXCEPT ![t] = IF _whisper_model_cache = 0 THEN "load" ELSE "use"]
  /\ UNCHANGED <<_whisper_model_cache, load_count, call_path, call_loaded, call_model,
                 call_lines, cache_files, othersOfTranscriber>>

\* line 226, right-hand side: whisper_mod.load_model(...) builds an instance
LoadModel(t) ==
  /\ call_pc[t] = "load"
  /\ load_count' = load_count + 1
  /\ call_loaded' = [call_loaded EXCEPT ![t] = load_count + 1]
  /\ call_pc' = [call_pc EXCEPT ![t] = "store"]
  /\ UNCHANGED <<_whisper_model_cache, call_path, call_model, call_lines, cache_files,
                 othersOfTranscriber>>

\* line 226, the assignment to the global
StoreModel(t) ==
  /\ call_pc[t] = "store"
  /\ _whisper_model_cache' = call_loaded[t]
  /\ call_pc' = [call_pc EXCEPT ![t] = "use"]
  /\ UNCHANGED <<load_count, call_path, call_loaded, call_model, call_lines, cache_files,
                 othersOfTranscriber>>

\* line 227: model = _whisper_model_cache
ReadModel(t) ==
  /\ call_pc[t] = "use"
  /\ call_model' = [call_model EXCEPT ![t] = _whisper_model_cache]
  /\ call_pc' = [call_pc EXCEPT ![t] = "transcribe"]
  /\ UNCHANGED <<_whisper_model_cache, load_count, call_path, call_loaded, call_lines,
                 cache_files, othersOfTranscriber>>

\* lines 229-299: model.transcribe returned segments; the lines are built,
\* the cache is written (unless the write fails, which is only logged) and
\* the transcript is returned
Transcribe(t, segments, write_ok) ==
  /\ call_pc[t] = "transcribe"
  /\ call_lines' = [call_lines EXCEPT ![t] = FormattedLines(segments)]
  /\ cache_files' =
       IF write_ok
         THEN [cache_files EXCEPT ![CachePath(call_path[t])] =
                 CacheFile(call_path[t], segments)]
         ELSE cache_files
  /\ call_pc' = [call_pc EXCEPT ![t] = "done"]
  /\ UNCHANGED <<_whisper_model_cache, load_count, call_path, call_loaded, call_model,
                 othersOfTranscriber>>

\* lines 301-303: model.transcribe raised; the exception is logged and raised
TranscribeFails(t) ==
  /\ call_pc[t] = "transcribe"
  /\ call_pc' = [call_pc EXCEPT ![t] = "raised"]
  /\ UNCHANGED <<_whisper_model_cache, load_count, call_path, call_loaded, call_model,
                 call_lines, cache_files, othersOfTranscriber>>

\* load_cached_transcript_data
load_cached_transcript_data(files, video_path) == files[CachePath(video_path)]

TranscribeNext ==
  \E t \in Callers :
    \/ \E video_path \in MediaPaths : CallTranscript(t, video_path)
    \/ CheckModel(t)
    \/ LoadModel(t)
    \/ StoreModel(t)
    \/ ReadModel(t)
    \/ \E segments \in WhisperResults : \E write_ok \in BOOLEAN :
         Transcribe(t, segments, write_ok)
    \/ TranscribeFails(t)

\* the state in which only this subsystem is started
TranscribeSpecInit ==
  TranscribeInit /\ AnalyserIdle /\ RendererIdle /\ SubtitleIdle /\ CropIdle
    /\ ToolsIdle

TranscribeSpec == TranscribeSpecInit /\ [][TranscribeNext]_vars

\* ------------------------------------------------------------------------
\* Timestamps there and back: video_utils.format_timestamp, then the
\* analyser's and the renderer's parse_timestamp_to_seconds
\* ------------------------------------------------------------------------
\* largest number of seconds that is formatted
MaxStampSeconds == 3599

StampInit ==
  /\ stamp_pc = "start"
  /\ stamp_seconds \in 0..MaxStampSeconds
  /\ stamp_text = <<>>
  /\ stamp_ai = ParseError
  /\ stamp_video = ParseError

\* format_timestamp(seconds) for an integer number of seconds
FormatStamp ==
  /\ stamp_pc = "start"
  /\ stamp_text' = format_timestamp(At(stamp_seconds * 1000))
  /\ stamp_pc' = "formatted"
  /\ UNCHANGED <<stamp_seconds, stamp_ai, stamp_video, analyserVars, videoVars, splitVars>>

\* both parsers applied to the formatted text
ParseStamp ==
  /\ stamp_pc = "formatted"
  /\ stamp_ai' = parse_timestamp_to_seconds(Str(stamp_text))
  /\ stamp_video' = video_utils_parse_timestamp_to_seconds(stamp_text)
  /\ stamp_pc' = "parsed"
  /\ UNCHANGED <<stamp_seconds, stamp_text, analyserVars, videoVars, splitVars>>

StampNext == FormatStamp \/ ParseStamp

\* the state in which only this subsystem is started
StampSpecInit == StampInit /\ AnalyserIdle /\ VideoIdle /\ SplitIdle

StampSpec == StampSpecInit /\ [][StampNext]_vars

\* ------------------------------------------------------------------------
\* Splitting a video by duration: video_utils.split_video_by_duration (lines
\* 1020-1084) and split_video_by_duration_ffmpeg (lines 1086-1179). Times
\* are in ms.
\* ------------------------------------------------------------------------
\* largest duration_seconds passed
MaxSplitSeconds == 3
\* clip_count and clips_info are followed up to this many clips (more than
\* any video below needs when the loop advances); larger counts are not
\* told apart
MaxSplitClips == 8

SplitVariants == {"moviepy", "ffmpeg"}

\* videos of 0 s, 2.5 s and 7 s
TotalDurations == {0, 2500, 7000}

\* min(current_start + duration_seconds, total_duration)
CurrentEnd(start, seconds, total) ==
  IF start + seconds * 1000 < total THEN start + seconds * 1000 ELSE total

\* lines 1036-1037: split_video_by_duration leaves the loop when the clip
\* would be empty; split_video_by_duration_ffmpeg has no such test
BreaksLoop(variant, clip_duration) == variant = "moviepy" /\ clip_duration <= 0

\* lines 1062-1069 and 1167-1174: the record of one clip
SplitClipInfo(number, start, end) ==
  [clip_number |-> number, start_time |-> start, end_time |-> end,
   duration |-> end - start]

SplitInit ==
  /\ split_pc = "test"
  /\ split_variant \in SplitVariants
  /\ total_duration \in TotalDurations
  /\ duration_seconds \in 0..MaxSplitSeconds
  /\ split_current_start = 0
  /\ clip_count = 0
  /\ split_clips_info = <<>>

\* lines 1032 and 1122: while current_start < total_duration; when the test
\* fails, clips_info is returned
SplitTest ==
  /\ split_pc = "test"
  /\ split_pc' = IF split_current_start < total_duration THEN "body" ELSE "returned"
  /\ UNCHANGED <<split_variant, total_duration, duration_seconds, split_current_start,
                 clip_count, split_clips_info, analyserVars, videoVars, stampVars>>

\* clip_count += 1
NextClipCount(count) == IF count < MaxSplitClips THEN count + 1 ELSE count

\* clips_info.append(...)
AppendClip(infos, info) == IF Len(infos) < MaxSplitClips THEN Append(infos, info) ELSE infos

\* the body of the while loop; written tells whether the clip file could be
\* written (write_videofile did not raise, ffmpeg returned 0)
SplitBody(written) ==
  /\ split_pc = "body"
  /\ \E current_end \in {CurrentEnd(split_current_start, duration_seconds, total_duration)} :
       IF BreaksLoop(split_variant, current_end - split_current_start)
         THEN /\ split_pc' = "returned"
              /\ UNCHANGED <<split_current_start, clip_count, split_clips_info>>
         ELSE /\ clip_count' = NextClipCount(clip_count)
              /\ split_clips_info' =
                   IF written
                     THEN AppendClip(split_clips_info,
                                     SplitClipInfo(NextClipCount(clip_count),
                                                   split_current_start, current_end))
                     ELSE split_clips_info
              /\ split_current_start' = current_end
              /\ split_pc' = "test"
  /\ UNCHANGED <<split_variant, total_duration, duration_seconds, analyserVars,
                 videoVars, stampVars>>

SplitStep == \E written \in BOOLEAN : SplitBody(written)

SplitNext == SplitTest \/ SplitStep

\* the state in which only this subsystem is started
SplitSpecInit == SplitInit /\ AnalyserIdle /\ VideoIdle /\ StampIdle

\* the function keeps running: the loop is executed as long as it can be
SplitSpec ==
  SplitSpecInit /\ [][SplitNext]_vars /\ WF_vars(SplitTest) /\ WF_vars(SplitStep)

\* ------------------------------------------------------------------------
\* Properties
\* ------------------------------------------------------------------------
Done == pc = "done"

StartS(seg) == parse_timestamp_to_seconds(Str(seg.start_time))

EndS(seg) == parse_timestamp_to_seconds(Str(seg.end_time))

Elems(q) == {q[i] : i \in 1..Len(q)}

Count(q, v) == Cardinality({i \in 1..Len(q) : q[i] = v})

\* the segment a candidate dict becomes when it is accepted
AsSegment(c) ==
  TranscriptSegment(c.start_time.chars, c.end_time.chars, c.text.words,
                    ScoreOf(c.relevance_score).val, c.reasoning)

\* the JSON object recovered from the response and its candidate list
RecoveredJson == extract_json_from_text(raw_text).json

Candidates == SegmentsData(RecoveredJson)

\* C1: every segment of the returned Analysis, accepted at first pass or
\* produced by the expander, has parsed times with 0 <= start_s < end_s and
\* MIN_SEGMENT_DURATION <= end_s - start_s <= MAX_SEGMENT_DURATION.
C1_SegmentTiming ==
  \A i \in 1..Len(analysis) :
    /\ StartS(analysis[i]).ok /\ EndS(analysis[i]).ok
    /\ 0 <= StartS(analysis[i]).val
    /\ StartS(analysis[i]).val < EndS(analysis[i]).val
    /\ MIN_SEGMENT_DURATION <= EndS(analysis[i]).val - StartS(analysis[i]).val
    /\ EndS(analysis[i]).val - StartS(analysis[i]).val <= MAX_SEGMENT_DURATION

\* a returned Analysis that holds a first-pass segment and an expanded one
C1_Witness ==
  /\ Done /\ expander_attempted
  /\ \E i \in 1..Len(analysis) : analysis[i] \in Elems(first_pass)
  /\ \E i \in 1..Len(analysis) : \E j \in 1..Len(expanded) :
       analysis[i] = AsSegment(expanded[j]) /\ analysis[i] \notin Elems(first_pass)

\* C2: validation judges candidates independently: whenever a JSON object
\* was recovered, every candidate of its list that passes the validation
\* rules on its own is accepted at first pass, whatever else is in the list
\* (a malformed entry is only skipped).
C2_IndependentValidation ==
  (Done /\ outcome = "ok") =>
    \A i \in 1..Len(Candidates) :
      ValidateOne(Candidates[i]).res = "accept"
        => ValidateOne(Candidates[i]).seg \in Elems(first_pass)

C4_NoDuplicateWindows ==
  \A i \in 1..Len(analysis) : \A j \in 1..Len(analysis) :
    i # j => Key(analysis[i]) # Key(analysis[j])

\* C5: when first-pass validation accepted at least MIN_SEGMENTS candidates
\* the expander is not run and the Analysis consists of first-pass segments.
C5_NoFallbackWhenEnough ==
  (Done /\ Len(first_pass) >= MIN_SEGMENTS) =>
    /\ ~expander_attempted
    /\ \A i \in 1..Len(analysis) : analysis[i] \in Elems(first_pass)

\* C6 (as stated): whenever the call returns an Analysis with fewer than
\* MIN_SEGMENTS segments, the expander was attempted earlier in the call.
C6_ShortAnalysisMeansFallback ==
  (Done /\ Len(analysis) < MIN_SEGMENTS) => expander_attempted

\* C6 (amended): whenever the call returns normally, i.e. not through one of
\* its failure returns, an Analysis with fewer than MIN_SEGMENTS segments,
\* the expander was attempted earlier in the call.
C6_ShortAnalysisMeansFallbackOnSuccess ==
  (Done /\ outcome = "ok" /\ Len(analysis) < MIN_SEGMENTS) => expander_attempted

\* a normal return with fewer than MIN_SEGMENTS segments although the
\* expander ran and the response held candidates
C6_Witness ==
  /\ Done /\ outcome = "ok"
  /\ Len(analysis) < MIN_SEGMENTS /\ Len(analysis) > 0
  /\ Len(Candidates) >= 2
  /\ expander_attempted

\* C7: every segment accepted at first pass, accepted after expansion or
\* returned has 0.0 <= relevance_score <= 1.0 (0..10 tenths).
C7_ScoreBound ==
  \A v \in Elems(first_pass) \cup Elems(combined) \cup Elems(analysis) :
    0 <= v.relevance_score /\ v.relevance_score <= 10

\* a candidate with an out-of-range score was expanded (keeping its score)
\* and the returned Analysis is not empty
C7_Witness ==
  /\ Done /\ analysis # <<>>
  /\ \E j \in 1..Len(expanded) : expanded[j].relevance_score.val > 10
  /\ \E i \in 1..Len(Candidates) :
       Candidates[i].relevance_score.kind = "num" /\ Candidates[i].relevance_score.val > 10

TranscriptStart == _parse_transcript_lines(transcript)[1].start_s

TranscriptEnd ==
  LET entries == _parse_transcript_lines(transcript) IN entries[Len(entries)].end_s

\* C8: every accepted segment lies within the time range of the transcript:
\* not before the first line's start, not after the last line's end.
C8_WithinTranscript ==
  \A v \in Elems(first_pass) \cup Elems(analysis) :
    /\ _parse_transcript_lines(transcript) # <<>>
    /\ StartS(v).val >= TranscriptStart
    /\ EndS(v).val <= TranscriptEnd

\* C9: call_ollama terminates after at most max_retries + 1 = 4 requests: it
\* returns the first non-empty response text at once, sends nothing after it
\* has returned, and returns no response exactly when four requests failed.
C9_CallState ==
  /\ requests <= 4
  /\ (last_outcome = "body") <=> (ollama_result = "text")
  /\ (ollama_result = "none") =>
       (requests = 4 /\ last_outcome \in FailureOutcomes)
  /\ (requests = 4) => (ollama_result # "pending")

C9_BoundedRetries ==
  /\ []C9_CallState
  /\ [][ollama_result # "pending" => requests' = requests]_vars
  /\ (pc = "calling") ~> (ollama_result # "pending")

\* the response text arrived on the fourth request, after three failures
C9_Witness == requests = 4 /\ ollama_result = "text" /\ attempt = max_retries

\* C10: a generation request that ends with a 4xx status other than 408 or
\* 429 is not retried: the call has then returned without a response.
C10_NoRetryOn4xx == (last_outcome = "http_404") => (ollama_result = "none")

\* C11: a failed preflight (tags request failed, test generation failed or
\* timed out) is final: the preflight ran once and sent at most its two
\* requests, no generation request is ever sent and the analysis has no
\* segments; a generation request is only sent after the preflight of the
\* same call succeeded; the preflight is never run a second time.
C11_PreflightFailed ==
  (preflight \notin {"", "ok"}) =>
    /\ pc = "done" /\ outcome = "preflight_failed"
    /\ requests = 0 /\ ollama_result = "pending"
    /\ analysis = <<>>
    /\ preflight_requests <= 2

C11_PreflightGate ==
  /\ []C11_PreflightFailed
  /\ [](requests > 0 => preflight = "ok")
  /\ [][preflight # "" =>
         (preflight' = preflight /\ preflight_requests' = preflight_requests)]_vars

\* the test generation of the preflight timed out and the call has returned
C11_Witness ==
  /\ Done /\ preflight = "generate_timeout" /\ preflight_requests = 2
  /\ transcript # <<>> /\ requests = 0

\* what json.loads yields under the first recovery strategy that parses
FirstParsed(text) ==
  IF text.direct.ok THEN text.direct
  ELSE IF text.fenced.ok THEN text.fenced
  ELSE text.brace

AllStrategiesFail(text) == ~text.direct.ok /\ ~text.fenced.ok /\ ~text.brace.ok

\* the call ended in the handler of line 917 without a JSON object
BadResponse == outcome = "error" /\ ~json_found

\* C12: once a response text was received, the analysis ends in the
\* bad-response outcome exactly when the direct parse, the fenced-block
\* parse and the balanced-brace parse all fail; otherwise the object that is
\* validated is the result of the first strategy, in that order, that parses.
C12_FirstParseWins ==
  (Done /\ ollama_result = "text") =>
    /\ BadResponse <=> AllStrategiesFail(raw_text)
    /\ ~AllStrategiesFail(raw_text) => json_data = FirstParsed(raw_text).json

\* ------------------------------------------------------------------------
\* Properties of the renderer loop
\* ------------------------------------------------------------------------
Returned == render_pc = "returned"

StartMs(segment) == video_utils_parse_timestamp_to_seconds(segment.start_time)

EndMs(segment) == video_utils_parse_timestamp_to_seconds(segment.end_time)

\* the segment has a positive duration, so the loop body reaches the render
Renderable(segment) ==
  StartMs(segment).ok /\ EndMs(segment).ok /\ EndMs(segment).val > StartMs(segment).val

\* C13: renderer failures are per-clip. When create_clips_from_segments
\* returns, every segment was visited, create_optimized_clip was called for
\* every segment with a positive duration whatever happened to the others,
\* and the returned index holds exactly one record per written file, in
\* input order, carrying that segment's data.
C13_PerClipFailure ==
  Returned =>
    /\ render_i = Len(render_segments)
    /\ render_called = {k \in 1..Len(render_segments) : Renderable(render_segments[k])}
    /\ Len(clips_info) = Len(rendered)
    /\ \A j \in 1..Len(rendered) :
         /\ rendered[j].index \in render_called
         /\ clips_info[j].start_time = render_segments[rendered[j].index].start_time
         /\ clips_info[j].end_time = render_segments[rendered[j].index].end_time
         /\ clips_info[j].text = render_segments[rendered[j].index].text
    /\ \A j \in 1..(Len(rendered) - 1) : rendered[j].index < rendered[j + 1].index

\* three segments: the first fails to render, the second starts beyond the
\* end of the source, the third is written and is the only record
C13_Witness ==
  /\ Returned /\ Len(render_segments) = 3
  /\ render_called = {1, 2, 3}
  /\ StartMs(render_segments[2]).val >= source_duration
  /\ Len(rendered) = 1 /\ rendered[1].index = 3
  /\ Len(clips_info) = 1

\* C14: the duration reported in every record of the returned index is the
\* length of the media that was written: end - start, with the end clamped
\* to the duration of the source.
C14_ReportedDuration ==
  \A j \in 1..Len(clips_info) :
    j <= Len(rendered) => clips_info[j].duration = rendered[j].media_duration

\* C15: the k-th record of the returned index has clip_id = k.
C15_ClipIdIsPosition ==
  \A k \in 1..Len(clips_info) : clips_info[k].clip_id = k

\* ------------------------------------------------------------------------
\* Properties of the subtitles
\* ------------------------------------------------------------------------
\* the length of the clip that is cut: subclip(start_time, end_time) with
\* the end clamped to the duration of the source
ClipDuration == ClampedEnd(clip_window) - clip_window.start_time

\* C16: every subtitle emitted for a clip has 0 <= start <= end <= clip
\* duration on the clip timeline (end = start + duration), for every cached
\* word list and clip window.
C16_SubtitleInsideClip ==
  \A k \in 1..Len(subtitle_clips) :
    /\ 0 <= subtitle_clips[k].start
    /\ subtitle_clips[k].start <= subtitle_clips[k].start + subtitle_clips[k].duration
    /\ subtitle_clips[k].start + subtitle_clips[k].duration <= ClipDuration

\* the window was clamped to the end of the source, a cached word reaches
\* over that end and another starts before the window; the subtitle made of
\* them spans the whole clip
C16_Witness ==
  /\ clip_window.end_time > clip_window.video_duration
  /\ \E k \in 1..Len(cached_words) : cached_words[k].end > clip_window.video_duration
  /\ \E k \in 1..Len(cached_words) : cached_words[k].start < clip_window.start_time
  /\ \E k \in 1..Len(subtitle_clips) :
       subtitle_clips[k].start = 0 /\ subtitle_clips[k].duration = ClipDuration

\* ------------------------------------------------------------------------
\* Properties of the square crop
\* ------------------------------------------------------------------------
IsEvenNat(n) == n >= 0 /\ n % 2 = 0

MinSide == IF frame_size[1] < frame_size[2] THEN frame_size[1] ELSE frame_size[2]

\* n rounded down to an even number
DownToEven(n) == 2 * (n \div 2)

\* C17: the returned region is (x_offset, y_offset, side, side) with all
\* values even and non-negative, side = min(W, H) rounded down to even, the
\* square inside the frame, and, when there is no detection, the centred
\* origin ((W - side) div 2, (H - side) div 2), each rounded down to even.
C17_SquareCropRegion ==
  (crop_pc = "returned") =>
    /\ \A k \in 1..4 : IsEvenNat(crop_region[k])
    /\ crop_region[3] = DownToEven(MinSide) /\ crop_region[4] = crop_region[3]
    /\ crop_region[1] + crop_region[3] <= frame_size[1]
    /\ crop_region[2] + crop_region[4] <= frame_size[2]
    /\ (crop_faces = <<>>) =>
         /\ crop_region[1] = DownToEven((frame_size[1] - crop_region[3]) \div 2)
         /\ crop_region[2] = DownToEven((frame_size[2] - crop_region[4]) \div 2)

\* faces at the right edge of a frame of odd width: the origin is clamped to
\* W - side, which is odd, and then rounded down
C17_Witness ==
  /\ crop_pc = "returned" /\ crop_faces # <<>>
  /\ (frame_size[1] - crop_region[3]) % 2 = 1
  /\ crop_region[1] = frame_size[1] - crop_region[3] - 1
  /\ crop_region[1] > 0

\* ------------------------------------------------------------------------
\* Properties of the transcriber and the transcript cache
\* ------------------------------------------------------------------------
\* the words of a segment that get_video_transcript builds lines from
RECURSIVE CompleteWords(_)
CompleteWords(words) ==
  IF words = <<>> THEN <<>>
  ELSE (IF Incomplete(Head(words)) THEN <<>> ELSE <<Head(words)>>)
       \o CompleteWords(Tail(words))

RECURSIVE LineWordsData(_)
LineWordsData(segments) ==
  IF segments = <<>> THEN <<>>
  ELSE CachedWords(CompleteWords(Head(segments).words)) \o LineWordsData(Tail(segments))

\* C18: every word stored in a transcript cache has a non-empty text and
\* 0 <= start_ms < end_ms, and the cached word list is exactly the list of
\* the words the transcript lines were built from (a word without start or
\* end is in neither).
C18_CachedWordsComplete ==
  \A cp \in DOMAIN cache_files :
    cache_files[cp].present =>
      /\ \A k \in 1..Len(cache_files[cp].words) :
           /\ cache_files[cp].words[k].text # <<>>
           /\ 0 <= cache_files[cp].words[k].start
           /\ cache_files[cp].words[k].start < cache_files[cp].words[k].end
      /\ cache_files[cp].words = LineWordsData(cache_files[cp].segments)

\* C19: two different media files never share a cache file: whatever was
\* transcribed so far, what load_cached_transcript_data returns for a media
\* file is nothing or the cache written by the transcription of that file.
C19_OneCachePerMediaFile ==
  (cache_files # <<>>) =>
    \A p \in MediaPaths :
      load_cached_transcript_data(cache_files, p).present =>
        load_cached_transcript_data(cache_files, p).origin = p

\* C20: whatever the interleaving of the callers, load_model is invoked at
\* most once and all transcriptions use one and the same instance.
C20_ModelLoadedOnce ==
  /\ load_count <= 1
  /\ \A t \in DOMAIN call_model : \A u \in DOMAIN call_model :
       (call_model[t] # 0 /\ call_model[u] # 0) => call_model[t] = call_model[u]

\* ------------------------------------------------------------------------
\* Properties of the transcript lines
\* ------------------------------------------------------------------------
\* C21: every line of a returned transcript has between 1 and 8 words, and
\* none of its words but the last ends in '.', '!' or '?'.
C21_LinesAreWordGroups ==
  \A t \in DOMAIN call_lines :
    \A k \in 1..Len(call_lines[t]) :
      /\ Len(call_lines[t][k].text) \in 1..max_words_per_segment
      /\ \A n \in 1..(Len(call_lines[t][k].text) - 1) :
           ~EndsSentence(call_lines[t][k].text[n])

\* ------------------------------------------------------------------------
\* Properties of the timestamp helpers
\* ------------------------------------------------------------------------
\* C22: for every integer s with 0 <= s < 3600, both parsers return s for
\* the text format_timestamp(s) (the renderer's parser in ms).
C22_FormatParseInverse ==
  (stamp_pc = "parsed" /\ stamp_seconds < 3600) =>
    /\ stamp_ai = [ok |-> TRUE, val |-> stamp_seconds]
    /\ stamp_video = [ok |-> TRUE, val |-> stamp_seconds * 1000]

\* a time of more than one minute made the round trip
C22_Witness ==
  /\ stamp_pc = "parsed"
  /\ stamp_seconds = 3599
  /\ stamp_text = <<"5", "9", ":", "5", "9">>
  /\ stamp_ai.ok /\ stamp_video.ok

\* ------------------------------------------------------------------------
\* Properties of the fallback expander
\* ------------------------------------------------------------------------
\* the parsed lines the expander of this call works on
Entries == _parse_transcript_lines(transcript)

\* the candidate reaches the while loop of the expander (lines 590-609)
ReachesLoop(seg) ==
  /\ seg.isdict
  /\ seg.start_time.kind = "str" /\ seg.end_time.kind = "str"
  /\ ScoreOf(seg.relevance_score).res = "ok"
  /\ parse_timestamp_to_seconds(Str(Strip(seg.start_time.chars))).ok
  /\ parse_timestamp_to_seconds(Str(Strip(seg.end_time.chars))).ok
  /\ FindStartIdx(Entries,
                  parse_timestamp_to_seconds(Str(Strip(seg.start_time.chars))).val) # 0

StartIdxOf(seg) ==
  FindStartIdx(Entries, parse_timestamp_to_seconds(Str(Strip(seg.start_time.chars))).val)

\* what the while loop does for the candidate
GrownOf(seg) ==
  ExpandForward(Entries, StartIdxOf(seg) + 1, Entries[StartIdxOf(seg)].start_s,
                Entries[StartIdxOf(seg)].end_s, Entries[StartIdxOf(seg)].text, <<>>)

\* C23: when the expander ran, the running duration after every append step
\* of every candidate is at most MAX_SEGMENT_DURATION.
C23_NoAppendBeyondMax ==
  expander_attempted =>
    \A c \in 1..Len(OriginalSegments(json_data)) :
      ReachesLoop(OriginalSegments(json_data)[c]) =>
        \A n \in 1..Len(GrownOf(OriginalSegments(json_data)[c]).appended) :
          GrownOf(OriginalSegments(json_data)[c]).appended[n] <= MAX_SEGMENT_DURATION

\* first-pass validation kept the candidate: it was accepted and the first
\* pass as a whole was not lost to an exception
AcceptedAtFirstPass(seg) ==
  validate_and_fix_json_data(json_data).ok /\ ValidateOne(seg).res = "accept"

\* C24: when the expander ran, it emitted nothing for a candidate that was
\* accepted at first pass.
C24_OnlyRejectedExpanded ==
  expander_attempted =>
    \A c \in 1..Len(OriginalSegments(json_data)) :
      AcceptedAtFirstPass(OriginalSegments(json_data)[c]) =>
        ExpandOne(Entries, OriginalSegments(json_data)[c]).res # "emit"

\* C25: when the expander ran, every expansion it emitted is in the combined
\* list of accepted segments, under its time window (a segment with the same
\* window stands for it where the merge dropped a duplicate).
C25_EmittedIsCombined ==
  expander_attempted =>
    \A e \in 1..Len(expanded) :
      \E k \in 1..Len(combined) :
        /\ combined[k].start_time = expanded[e].start_time.chars
        /\ combined[k].end_time = expanded[e].end_time.chars

\* C26: when the expander ran, every candidate that first-pass validation
\* looked at and did not accept, under whichever top-level key it came, is
\* among the candidates handed to the expander.
C26_AlternativeKeysExpanded ==
  expander_attempted =>
    \A c \in 1..Len(SegmentsData(json_data)) :
      ValidateOne(SegmentsData(json_data)[c]).res # "accept" =>
        \E k \in 1..Len(OriginalSegments(json_data)) :
          OriginalSegments(json_data)[k] = SegmentsData(json_data)[c]

\* C27: when the expander ran, every expansion it emitted starts at the time
\* its candidate started at.
C27_ExpansionKeepsStart ==
  expander_attempted =>
    \A c \in 1..Len(OriginalSegments(json_data)) :
      ExpandOne(Entries, OriginalSegments(json_data)[c]).res = "emit" =>
        parse_timestamp_to_seconds(
            ExpandOne(Entries, OriginalSegments(json_data)[c]).seg.start_time).val
          = parse_timestamp_to_seconds(
                Str(Strip(OriginalSegments(json_data)[c].start_time.chars))).val

\* ------------------------------------------------------------------------
\* Properties that relate the analyser and the video utilities
\* ------------------------------------------------------------------------
\* validate_segments accepts the two timestamps of the segment (lines
\* 670-676 of ai.py): both parse and the duration is in range
ValidatedTimes(seg) ==
  /\ parse_timestamp_to_seconds(Str(seg.start_time)).ok
  /\ parse_timestamp_to_seconds(Str(seg.end_time)).ok
  /\ DurationInRange(parse_timestamp_to_seconds(Str(seg.end_time)).val
                       - parse_timestamp_to_seconds(Str(seg.start_time)).val)

\* C28: for every segment the loop has visited whose timestamps the
\* validator accepts, the renderer's parser gives the same start and end
\* and create_optimized_clip was called for it.
C28_ParsersAgree ==
  \A k \in 1..render_i :
    ValidatedTimes(render_segments[k]) =>
      /\ video_utils_parse_timestamp_to_seconds(render_segments[k].start_time)
           = [ok |-> TRUE,
              val |-> 1000 * parse_timestamp_to_seconds(Str(render_segments[k].start_time)).val]
      /\ video_utils_parse_timestamp_to_seconds(render_segments[k].end_time)
           = [ok |-> TRUE,
              val |-> 1000 * parse_timestamp_to_seconds(Str(render_segments[k].end_time)).val]
      /\ k \in render_called

\* C29: the line parser of the expander yields, for the lines of every
\* returned transcript, one entry per line, in order, with the line's start,
\* end and text.
C29_LinesAreParsed ==
  \A t \in DOMAIN call_pc :
    call_pc[t] = "done" =>
      /\ Len(_parse_transcript_lines(call_lines[t])) = Len(call_lines[t])
      /\ \A k \in 1..Len(call_lines[t]) :
           /\ _parse_transcript_lines(call_lines[t])[k].start_time = call_lines[t][k].st
           /\ _parse_transcript_lines(call_lines[t])[k].end_time = call_lines[t][k].et
           /\ _parse_transcript_lines(call_lines[t])[k].text = call_lines[t][k].text

\* ------------------------------------------------------------------------
\* Properties of the splitting loops
\* ------------------------------------------------------------------------
\* C30: every call of either splitting function returns.
C30_SplitTerminates == <>(split_pc = "returned")

====
